---------------------------- MODULE Spec2Model ----------------------------
(***************************************************************************)
(* The catalog schema of src/catalog/models.py (Genre, Language, Book,     *)
(* BookInstance, Author) as a state machine over its five tables.          *)
(*                                                                         *)
(* A table is a set of rows; a row is a record with the columns the        *)
(* properties below read.  Columns that no property reads (Book.title,     *)
(* Book.summary, BookInstance.imprint, Author.date_of_birth,               *)
(* Author.date_of_death) carry no constraint besides a length and are      *)
(* left out of the rows.  The Book<->Genre association table is the        *)
(* column `genre` of a Book row: a set of Genre ids.                       *)
(*                                                                         *)
(* Every field option of the source is given the meaning the ORM gives     *)
(* it: null/unique/primary_key/on_delete are enforced whenever a row is    *)
(* written or deleted; blank and choices are enforced only by model        *)
(* validation (full_clean, which forms and the admin site call before      *)
(* save).  A write therefore takes a flag `validate`: TRUE is full_clean   *)
(* followed by save, FALSE is save alone.                                  *)
(***************************************************************************)
EXTENDS Integers, Sequences, FiniteSets, TLC

VARIABLES
    authors,        \* table Author:       rows [id, last_name, first_name]
    languages,      \* table Language:     rows [id, name]
    genres,         \* table Genre:        rows [id, name]
    books,          \* table Book:         rows [id, author, isbn, genre, language]
    bookinstances,  \* table BookInstance: rows [id, book, due_back, borrower, status]
    users,          \* table auth.User:    rows [id]
    today,          \* date.today()
    nulls_first,    \* whether the database sorts NULL before every value
    pending,        \* per client: the BookInstance object built and not yet saved
    retired,        \* the tokens of the BookInstance rows deleted so far
    call,           \* the operation called last and the id of the row it is about
    result,         \* its outcome: "ok" or the exception raised
    ret             \* the value it returned, when it is a read

tables == <<authors, languages, genres, books, bookinstances, users>>
vars == <<authors, languages, genres, books, bookinstances, users, today,
          nulls_first, pending, retired, call, result, ret>>

-----------------------------------------------------------------------------
(* Bounds of the model *)

MaxAuthors == 2
MaxBooks == 2
MaxCopies == 1
MaxTokens == 2
MaxUsers == 1
MaxDate == 3
MaxGenres == 4
MaxClients == 2
MaxListed == 2
MaxDue == 2

-----------------------------------------------------------------------------
(* Values *)

\* A column declared null=True holds NULL or a value; ids, tokens and dates
\* are positive integers, so 0 is free to stand for NULL.
NULL == 0

\* The argument of a constructor that was not supplied.
NOT_PROVIDED == "NOT_PROVIDED"

NoValue == [op |-> "none"]

LOAN_STATUS == <<
    <<"d", "Manutencao">>,
    <<"o", "Emprestado">>,
    <<"a", "Disponivel">>,
    <<"r", "Reservado">> >>

StatusChoices == {LOAN_STATUS[i][1] : i \in 1..Len(LOAN_STATUS)}

status_default_available == "a"

status_default == "d"

Ids(table) == {r.id : r \in table}

Row(table, id) == CHOOSE r \in table : r.id = id


-----------------------------------------------------------------------------
(* Field options, as declared *)

Book_author_on_delete_cascade == "CASCADE"

Book_author_on_delete == "SET_NULL"

Book_language_on_delete == "SET_NULL"

Book_isbn_not_unique == FALSE

Book_isbn_unique == TRUE

BookInstance_book_on_delete_set_null == "SET_NULL"

BookInstance_book_on_delete == "RESTRICT"

BookInstance_book_null == TRUE

BookInstance_borrower_on_delete == "SET_NULL"

BookInstance_status_blank == TRUE

-----------------------------------------------------------------------------
(* Referential actions *)

\* The rows of `table` whose foreign key `column` points at row `id`.
Referencing(table, column, id) == {r \in table : r[column] = id}

\* on_delete=RESTRICT refuses the deletion of a row that is referenced.
Restricted(policy, table, column, id) ==
    policy = "RESTRICT" /\ Referencing(table, column, id) # {}

\* What the deletion of row `id` leaves of the table that references it.
OnDelete(policy, table, column, id) ==
    CASE policy = "SET_NULL" ->
            {IF r[column] = id THEN [r EXCEPT ![column] = NULL] ELSE r : r \in table}
      [] policy = "CASCADE" -> {r \in table : r[column] # id}
      [] OTHER -> table

\* A foreign key column holds NULL (where the column is nullable) or the id
\* of a row of the table it refers to.
ForeignKeyOk(value, table, nullable) ==
    \/ nullable /\ value = NULL
    \/ value # NULL /\ value \in Ids(table)

-----------------------------------------------------------------------------
(* Author, Language, User *)

AuthorCreate(id, last_name, first_name) ==
    /\ id \notin Ids(authors)
    /\ authors' = authors \cup
          {[id |-> id, last_name |-> last_name, first_name |-> first_name]}
    /\ result' = "ok"
    /\ call' = [op |-> "AuthorCreate", id |-> id]
    /\ ret' = NoValue
    /\ UNCHANGED <<languages, genres, books, bookinstances, users, today,
                   nulls_first, pending, retired>>

AuthorUpdate(id, last_name, first_name) ==
    /\ id \in Ids(authors)
    /\ authors' = (authors \ {Row(authors, id)}) \cup
          {[id |-> id, last_name |-> last_name, first_name |-> first_name]}
    /\ result' = "ok"
    /\ call' = [op |-> "AuthorUpdate", id |-> id]
    /\ ret' = NoValue
    /\ UNCHANGED <<languages, genres, books, bookinstances, users, today,
                   nulls_first, pending, retired>>

AuthorDelete(id) ==
    /\ id \in Ids(authors)
    /\ IF Restricted(Book_author_on_delete, books, "author", id)
       THEN /\ result' = "RestrictedError"
            /\ UNCHANGED <<authors, books>>
       ELSE /\ authors' = authors \ {Row(authors, id)}
            /\ books' = OnDelete(Book_author_on_delete, books, "author", id)
            /\ result' = "ok"
    /\ call' = [op |-> "AuthorDelete", id |-> id]
    /\ ret' = NoValue
    /\ UNCHANGED <<languages, genres, bookinstances, users, today,
                   nulls_first, pending, retired>>

LanguageCreate(id, name) ==
    /\ id \notin Ids(languages)
    /\ languages' = languages \cup {[id |-> id, name |-> name]}
    /\ result' = "ok"
    /\ call' = [op |-> "LanguageCreate", id |-> id]
    /\ ret' = NoValue
    /\ UNCHANGED <<authors, genres, books, bookinstances, users, today,
                   nulls_first, pending, retired>>

LanguageDelete(id) ==
    /\ id \in Ids(languages)
    /\ IF Restricted(Book_language_on_delete, books, "language", id)
       THEN /\ result' = "RestrictedError"
            /\ UNCHANGED <<languages, books>>
       ELSE /\ languages' = languages \ {Row(languages, id)}
            /\ books' = OnDelete(Book_language_on_delete, books, "language", id)
            /\ result' = "ok"
    /\ call' = [op |-> "LanguageDelete", id |-> id]
    /\ ret' = NoValue
    /\ UNCHANGED <<authors, genres, bookinstances, users, today,
                   nulls_first, pending, retired>>

UserCreate(id) ==
    /\ id \notin Ids(users)
    /\ users' = users \cup {[id |-> id]}
    /\ result' = "ok"
    /\ call' = [op |-> "UserCreate", id |-> id]
    /\ ret' = NoValue
    /\ UNCHANGED <<authors, languages, genres, books, bookinstances, today,
                   nulls_first, pending, retired>>

UserDelete(id) ==
    /\ id \in Ids(users)
    /\ IF Restricted(BookInstance_borrower_on_delete, bookinstances, "borrower", id)
       THEN /\ result' = "RestrictedError"
            /\ UNCHANGED <<users, bookinstances>>
       ELSE /\ users' = users \ {Row(users, id)}
            /\ bookinstances' = OnDelete(BookInstance_borrower_on_delete,
                                         bookinstances, "borrower", id)
            /\ result' = "ok"
    /\ call' = [op |-> "UserDelete", id |-> id]
    /\ ret' = NoValue
    /\ UNCHANGED <<authors, languages, genres, books, today,
                   nulls_first, pending, retired>>

-----------------------------------------------------------------------------
(* Book *)

\* unique=True: no other row holds the same isbn.
Book_isbn_free(row) ==
    Book_isbn_unique => \A r \in books : r.id # row.id => r.isbn # row.isbn

\* Model.full_clean(): author and language are blank=False, so validation
\* wants a value in them, and one that exists; isbn must not be taken.
Book_full_clean(row) ==
    /\ ForeignKeyOk(row.author, authors, FALSE)
    /\ ForeignKeyOk(row.language, languages, FALSE)
    /\ Book_isbn_free(row)

\* The constraints of the table: two nullable foreign keys, one unique column.
Book_constraints(row) ==
    /\ ForeignKeyOk(row.author, authors, TRUE)
    /\ ForeignKeyOk(row.language, languages, TRUE)
    /\ Book_isbn_free(row)

\* full_clean() raises ValidationError; the database raises IntegrityError
\* and names the constraint that failed.
Book_save(validate, row) ==
    IF validate /\ ~Book_full_clean(row) THEN "ValidationError"
    ELSE IF ~Book_isbn_free(row) THEN "IntegrityError: UNIQUE isbn"
    ELSE IF ~Book_constraints(row) THEN "IntegrityError: FOREIGN KEY"
    ELSE "ok"

BookCreate(validate, id, author, isbn, language) ==
    LET row == [id |-> id, author |-> author, isbn |-> isbn, genre |-> {},
                language |-> language]
    IN  /\ id \notin Ids(books)
        /\ result' = Book_save(validate, row)
        /\ books' = IF result' = "ok" THEN books \cup {row} ELSE books
        /\ call' = [op |-> "BookCreate", id |-> id, isbn |-> isbn]
        /\ ret' = NoValue
        /\ UNCHANGED <<authors, languages, genres, bookinstances, users, today,
                       nulls_first, pending, retired>>

BookUpdate(validate, id, author, isbn, language) ==
    /\ id \in Ids(books)
    /\ LET old == Row(books, id)
           row == [old EXCEPT !.author = author, !.isbn = isbn,
                              !.language = language]
       IN  /\ result' = Book_save(validate, row)
           /\ books' = IF result' = "ok" THEN (books \ {old}) \cup {row} ELSE books
    /\ call' = [op |-> "BookUpdate", id |-> id, isbn |-> isbn]
    /\ ret' = NoValue
    /\ UNCHANGED <<authors, languages, genres, bookinstances, users, today,
                   nulls_first, pending, retired>>

\* Book.delete(): the rows of the association table go with the Book; the
\* BookInstance rows that reference it are handled by the field's on_delete.
BookDelete(id) ==
    /\ id \in Ids(books)
    /\ IF Restricted(BookInstance_book_on_delete, bookinstances, "book", id)
       THEN /\ result' = "RestrictedError"
            /\ UNCHANGED <<books, bookinstances>>
       ELSE /\ books' = books \ {Row(books, id)}
            /\ bookinstances' = OnDelete(BookInstance_book_on_delete,
                                         bookinstances, "book", id)
            /\ result' = "ok"
    /\ call' = [op |-> "BookDelete", id |-> id]
    /\ ret' = NoValue
    /\ UNCHANGED <<authors, languages, genres, users, today,
                   nulls_first, pending, retired>>

-----------------------------------------------------------------------------
(* BookInstance *)

\* BookInstance(...): a status that is not supplied takes the default.
BookInstance_init(id, book, due_back, borrower, status) ==
    [id |-> id, book |-> book, due_back |-> due_back, borrower |-> borrower,
     status |-> IF status = NOT_PROVIDED THEN status_default ELSE status]

BookInstance_status_unchecked(status) == TRUE

\* choices with blank=True: validation accepts a listed code, and the empty
\* string without looking at the choices.
BookInstance_status_valid(status) ==
    \/ status \in StatusChoices
    \/ BookInstance_status_blank /\ status = ""

BookInstance_id_unchecked(row) == TRUE

\* primary_key=True: no other row holds the same id.
BookInstance_id_free(row) == row.id \notin Ids(bookinstances)

\* Model.full_clean(): book is blank=False; due_back and borrower are
\* blank=True; the primary key of a new object must not be taken.
BookInstance_full_clean(row, adding) ==
    /\ ForeignKeyOk(row.book, books, FALSE)
    /\ ForeignKeyOk(row.borrower, users, TRUE)
    /\ BookInstance_status_valid(row.status)
    /\ adding => BookInstance_id_free(row)

\* The constraints of the table: the primary key and two foreign keys.
\* The choices of status are no constraint of the table.
BookInstance_constraints(row, adding) ==
    /\ ForeignKeyOk(row.book, books, BookInstance_book_null)
    /\ ForeignKeyOk(row.borrower, users, TRUE)
    /\ adding => BookInstance_id_free(row)

BookInstance_save(validate, row, adding) ==
    IF validate /\ ~BookInstance_full_clean(row, adding) THEN "ValidationError"
    ELSE IF adding /\ ~BookInstance_id_free(row) THEN "IntegrityError: UNIQUE id"
    ELSE IF ~BookInstance_constraints(row, adding) THEN "IntegrityError: FOREIGN KEY"
    ELSE "ok"

\* BookInstance.objects.create(...).  `id` is the token of the new object:
\* the one the caller supplies or the one default=uuid.uuid4 draws, which
\* may be any token.
BookInstanceCreate(validate, id, book, due_back, borrower, status) ==
    LET row == BookInstance_init(id, book, due_back, borrower, status)
    IN  /\ result' = BookInstance_save(validate, row, TRUE)
        /\ bookinstances' = IF result' = "ok" THEN bookinstances \cup {row}
                            ELSE bookinstances
        /\ call' = [op |-> "BookInstanceCreate", id |-> id, validate |-> validate,
                    status |-> status]
        /\ ret' = NoValue
        /\ UNCHANGED <<authors, languages, genres, books, users, today,
                       nulls_first, pending, retired>>

\* A client builds a BookInstance object; nothing is stored yet.
BookInstanceNew(client, id, book, due_back, borrower, status) ==
    /\ pending[client] = NoValue
    /\ pending' = [pending EXCEPT ![client] =
                      BookInstance_init(id, book, due_back, borrower, status)]
    /\ result' = "ok"
    /\ call' = [op |-> "BookInstanceNew", id |-> id, status |-> status]
    /\ ret' = NoValue
    /\ UNCHANGED <<tables, today, nulls_first, retired>>

\* The client saves the object it built: an INSERT, since the object is new
\* and its primary key has a default.
BookInstanceSave(client, validate) ==
    /\ pending[client] # NoValue
    /\ result' = BookInstance_save(validate, pending[client], TRUE)
    /\ bookinstances' = IF result' = "ok"
                        THEN bookinstances \cup {pending[client]}
                        ELSE bookinstances
    /\ pending' = [pending EXCEPT ![client] = NoValue]
    /\ call' = [op |-> "BookInstanceSave", id |-> pending[client].id,
                validate |-> validate]
    /\ ret' = NoValue
    /\ UNCHANGED <<authors, languages, genres, books, users, today,
                   nulls_first, retired>>

\* Saving a stored BookInstance after assigning to its fields: an UPDATE of
\* the row with that id.
BookInstanceUpdate(validate, id, book, due_back, borrower, status) ==
    /\ id \in Ids(bookinstances)
    /\ LET old == Row(bookinstances, id)
           row == [old EXCEPT !.book = book, !.due_back = due_back,
                              !.borrower = borrower, !.status = status]
       IN  /\ result' = BookInstance_save(validate, row, FALSE)
           /\ bookinstances' = IF result' = "ok"
                               THEN (bookinstances \ {old}) \cup {row}
                               ELSE bookinstances
    /\ call' = [op |-> "BookInstanceUpdate", id |-> id, validate |-> validate,
                status |-> status]
    /\ ret' = NoValue
    /\ UNCHANGED <<authors, languages, genres, books, users, today,
                   nulls_first, pending, retired>>

BookInstanceDelete(id) ==
    /\ id \in Ids(bookinstances)
    /\ bookinstances' = {r \in bookinstances : r.id # id}
    /\ retired' = retired \cup {id}
    /\ result' = "ok"
    /\ call' = [op |-> "BookInstanceDelete", id |-> id]
    /\ ret' = NoValue
    /\ UNCHANGED <<authors, languages, genres, books, users, today,
                   nulls_first, pending>>

-----------------------------------------------------------------------------
(* Genre, and the genres of a Book *)

GenreCreate(id, name) ==
    /\ id \notin Ids(genres)
    /\ genres' = genres \cup {[id |-> id, name |-> name]}
    /\ result' = "ok"
    /\ call' = [op |-> "GenreCreate", id |-> id]
    /\ ret' = NoValue
    /\ UNCHANGED <<authors, languages, books, bookinstances, users, today,
                   nulls_first, pending, retired>>

\* Genre.delete(): the rows of the association table that name it go too.
GenreDelete(id) ==
    /\ id \in Ids(genres)
    /\ genres' = genres \ {Row(genres, id)}
    /\ books' = {[r EXCEPT !.genre = r.genre \ {id}] : r \in books}
    /\ result' = "ok"
    /\ call' = [op |-> "GenreDelete", id |-> id]
    /\ ret' = NoValue
    /\ UNCHANGED <<authors, languages, bookinstances, users, today,
                   nulls_first, pending, retired>>

\* book.genre.add(genre): a pair that is there already is not added again.
BookGenreAdd(id, genre) ==
    /\ id \in Ids(books)
    /\ genre \in Ids(genres)
    /\ books' = {IF r.id = id THEN [r EXCEPT !.genre = r.genre \cup {genre}]
                 ELSE r : r \in books}
    /\ result' = "ok"
    /\ call' = [op |-> "BookGenreAdd", id |-> id]
    /\ ret' = NoValue
    /\ UNCHANGED <<authors, languages, genres, bookinstances, users, today,
                   nulls_first, pending, retired>>

BookGenreRemove(id, genre) ==
    /\ id \in Ids(books)
    /\ genre \in Row(books, id).genre
    /\ books' = {IF r.id = id THEN [r EXCEPT !.genre = r.genre \ {genre}]
                 ELSE r : r \in books}
    /\ result' = "ok"
    /\ call' = [op |-> "BookGenreRemove", id |-> id]
    /\ ret' = NoValue
    /\ UNCHANGED <<authors, languages, genres, bookinstances, users, today,
                   nulls_first, pending, retired>>

\* The orders in which a query with no ORDER BY may return the rows of `set`.
Orders(set) ==
    {f \in [1..Cardinality(set) -> set] :
        \A i, j \in 1..Cardinality(set) : f[i] = f[j] => i = j}

\* seq[:n]
Slice(seq, n) == SubSeq(seq, 1, IF Len(seq) < n THEN Len(seq) ELSE n)

\* sep.join(strings); a string is the sequence of its characters.
RECURSIVE Join(_, _)
Join(sep, strings) ==
    IF strings = <<>> THEN <<>>
    ELSE IF Len(strings) = 1 THEN strings[1]
    ELSE strings[1] \o sep \o Join(sep, Tail(strings))

display_genre_limit == 3

\* ', '.join([genre.name for genre in all]), over a sequence of Genre rows.
display_genre_join(all) == Join(<<",", " ">>, [i \in 1..Len(all) |-> all[i].name])

display_genre_unsliced(all) == display_genre_join(all)

\* Book.display_genre(), `all` being what self.genre.all() returns.
display_genre(all) == display_genre_join(Slice(all, display_genre_limit))

\* A call of book.display_genre().  Genre declares no ordering, so the
\* genres of the Book come in any order.
DisplayGenre(id) ==
    /\ id \in Ids(books)
    /\ \E all \in Orders({g \in genres : g.id \in Row(books, id).genre}) :
          ret' = [op |-> "display_genre", all |-> all,
                  value |-> display_genre(all)]
    /\ result' = "ok"
    /\ call' = [op |-> "display_genre", id |-> id]
    /\ UNCHANGED <<tables, today, nulls_first, pending, retired>>

-----------------------------------------------------------------------------
(* BookInstance.is_overdue *)

\* The calendar moves on.
Tick ==
    /\ today < MaxDate
    /\ today' = today + 1
    /\ result' = "ok"
    /\ call' = [op |-> "Tick", id |-> NULL]
    /\ ret' = NoValue
    /\ UNCHANGED <<tables, nulls_first, pending, retired>>

is_overdue_on_due_date(self) ==
    IF self.due_back = NULL THEN FALSE ELSE today >= self.due_back

\* bool(self.due_back and date.today() > self.due_back): a due_back of None
\* makes the `and` stop at it, and bool(None) is False.
is_overdue(self) ==
    IF self.due_back = NULL THEN FALSE ELSE today > self.due_back

\* A read of the property is_overdue of a stored BookInstance.
IsOverdue(id) ==
    /\ id \in Ids(bookinstances)
    /\ ret' = [op |-> "is_overdue", self |-> Row(bookinstances, id),
               today |-> today, value |-> is_overdue(Row(bookinstances, id))]
    /\ result' = "ok"
    /\ call' = [op |-> "is_overdue", id |-> id]
    /\ UNCHANGED <<tables, today, nulls_first, pending, retired>>

-----------------------------------------------------------------------------
(* Default ordering *)

Author_ordering_swapped == <<"first_name", "last_name">>

Author_ordering == <<"last_name", "first_name">>

BookInstance_ordering == <<"due_back">>

\* The code point of a character.
Ord(c) == CASE c = " " -> 32 [] c = "," -> 44 [] c = "A" -> 65 [] c = "B" -> 66

\* s < t for strings, character by character.
RECURSIVE StrLess(_, _)
StrLess(s, t) ==
    IF t = <<>> THEN FALSE
    ELSE IF s = <<>> THEN TRUE
    ELSE IF Ord(Head(s)) < Ord(Head(t)) THEN TRUE
    ELSE IF Ord(Head(s)) > Ord(Head(t)) THEN FALSE
    ELSE StrLess(Tail(s), Tail(t))

\* x < y for dates in ORDER BY ... ASC: the database puts NULL before every
\* date or after every date.
DateLess(x, y) ==
    IF x = NULL THEN y # NULL /\ nulls_first
    ELSE IF y = NULL THEN ~nulls_first
    ELSE x < y

ColumnLess(column, x, y) ==
    IF column = "due_back" THEN DateLess(x, y) ELSE StrLess(x, y)

\* Whether row r1 sorts before row r2 under `ordering`, a list of columns.
RECURSIVE RowLess(_, _, _)
RowLess(ordering, r1, r2) ==
    IF ordering = <<>> THEN FALSE
    ELSE LET column == Head(ordering)
         IN  IF ColumnLess(column, r1[column], r2[column]) THEN TRUE
             ELSE IF ColumnLess(column, r2[column], r1[column]) THEN FALSE
             ELSE RowLess(Tail(ordering), r1, r2)

RECURSIVE Insert(_, _, _)
Insert(ordering, sorted, row) ==
    IF sorted = <<>> THEN <<row>>
    ELSE IF RowLess(ordering, row, Head(sorted)) THEN <<row>> \o sorted
    ELSE <<Head(sorted)>> \o Insert(ordering, Tail(sorted), row)

\* ORDER BY: the rows, met in the order `heap`, sorted by `ordering`.
RECURSIVE OrderBy(_, _)
OrderBy(ordering, heap) ==
    IF heap = <<>> THEN <<>>
    ELSE Insert(ordering, OrderBy(ordering, SubSeq(heap, 1, Len(heap) - 1)),
                heap[Len(heap)])

\* list(Author.objects.all()); `heap` is the order the table is read in.
AuthorList ==
    /\ \E heap \in Orders(authors) :
          ret' = [op |-> "Author.objects.all",
                  value |-> OrderBy(Author_ordering, heap)]
    /\ result' = "ok"
    /\ call' = [op |-> "Author.objects.all", id |-> NULL]
    /\ UNCHANGED <<tables, today, nulls_first, pending, retired>>

\* list(BookInstance.objects.all())
BookInstanceList ==
    /\ \E heap \in Orders(bookinstances) :
          ret' = [op |-> "BookInstance.objects.all",
                  value |-> OrderBy(BookInstance_ordering, heap)]
    /\ result' = "ok"
    /\ call' = [op |-> "BookInstance.objects.all", id |-> NULL]
    /\ UNCHANGED <<tables, today, nulls_first, pending, retired>>

-----------------------------------------------------------------------------
(* Inputs *)

AuthorIds == 1..MaxAuthors
BookIds == 1..MaxBooks
Isbns == 1..MaxBooks
Copies == 1..MaxCopies
Tokens == 1..MaxTokens
UserIds == 1..MaxUsers
Clients == 1..MaxClients
Dates == 1..MaxDate

\* The status a caller may pass: the four codes, the empty string, and a
\* string that is no code.
StatusInputs == StatusChoices \cup {"", "x"}

Init ==
    /\ authors = {}
    /\ languages = {}
    /\ genres = {}
    /\ books = {}
    /\ bookinstances = {}
    /\ users = {}
    /\ today = 1
    /\ nulls_first = TRUE
    /\ pending = [c \in Clients |-> NoValue]
    /\ retired = {}
    /\ call = [op |-> "none", id |-> NULL]
    /\ result = "ok"
    /\ ret = NoValue

-----------------------------------------------------------------------------
(* Books and their copies: every write and delete of Book and              *)
(* BookInstance, with and without validation.                              *)

Next ==
    \/ \E id \in BookIds, isbn \in Isbns : BookCreate(FALSE, id, NULL, isbn, NULL)
    \/ \E id \in BookIds, isbn \in Isbns : BookUpdate(FALSE, id, NULL, isbn, NULL)
    \/ \E id \in BookIds : BookDelete(id)
    \/ \E v \in BOOLEAN, id \in Copies, b \in BookIds \cup {NULL} :
          BookInstanceCreate(v, id, b, NULL, NULL, NOT_PROVIDED)
    \/ \E v \in BOOLEAN, id \in Copies, b \in BookIds \cup {NULL} :
          BookInstanceUpdate(v, id, b, NULL, NULL, "o")
    \/ \E id \in Copies : BookInstanceDelete(id)

Spec == Init /\ [][Next]_vars

-----------------------------------------------------------------------------
(* References: Authors and a Language, the Books that name them, and a    *)
(* copy of a Book.                                                         *)

NextReferences ==
    \/ \E id \in AuthorIds : AuthorCreate(id, <<"A">>, <<"A">>)
    \/ \E id \in AuthorIds : AuthorDelete(id)
    \/ LanguageCreate(1, <<"A">>)
    \/ LanguageDelete(1)
    \/ \E v \in BOOLEAN, id \in BookIds, a \in AuthorIds \cup {NULL},
          l \in {1, NULL} :
          BookCreate(v, id, a, id, l)
    \/ \E v \in BOOLEAN, id \in BookIds, a \in AuthorIds \cup {NULL},
          l \in {1, NULL} :
          BookUpdate(v, id, a, id, l)
    \/ \E id \in BookIds : BookDelete(id)
    \/ \E b \in BookIds : BookInstanceCreate(TRUE, 1, b, NULL, NULL, NOT_PROVIDED)

SpecReferences == Init /\ [][NextReferences]_vars

-----------------------------------------------------------------------------
(* The status of a BookInstance: copies of one Book, written with every    *)
(* status a caller may pass.                                               *)

NextStatus ==
    \/ BookCreate(FALSE, 1, NULL, 1, NULL)
    \/ \E v \in BOOLEAN, id \in Copies, s \in StatusInputs \cup {NOT_PROVIDED} :
          BookInstanceCreate(v, id, 1, NULL, NULL, s)
    \/ \E v \in BOOLEAN, id \in Copies, s \in StatusInputs :
          BookInstanceUpdate(v, id, 1, NULL, NULL, s)
    \/ \E id \in Copies : BookInstanceDelete(id)

SpecStatus == Init /\ [][NextStatus]_vars

-----------------------------------------------------------------------------
(* Tokens: clients that build and save BookInstances concurrently.         *)

NextTokens ==
    \/ BookCreate(FALSE, 1, NULL, 1, NULL)
    \/ \E c \in Clients, id \in Tokens :
          BookInstanceNew(c, id, 1, NULL, NULL, NOT_PROVIDED)
    \/ \E c \in Clients, v \in BOOLEAN : BookInstanceSave(c, v)
    \/ \E id \in Tokens : BookInstanceUpdate(FALSE, id, 1, NULL, NULL, "o")
    \/ \E id \in Tokens : BookInstanceDelete(id)

SpecTokens == Init /\ [][NextTokens]_vars

-----------------------------------------------------------------------------
(* Loans: due dates, borrowers, the calendar, and reads of is_overdue.     *)

NextOverdue ==
    \/ BookCreate(FALSE, 1, NULL, 1, NULL)
    \/ \E u \in UserIds : UserCreate(u)
    \/ \E u \in UserIds : UserDelete(u)
    \/ \E id \in Copies, d \in Dates \cup {NULL}, u \in UserIds \cup {NULL} :
          BookInstanceCreate(TRUE, id, 1, d, u, NOT_PROVIDED)
    \/ \E id \in Copies, d \in Dates \cup {NULL}, u \in UserIds \cup {NULL},
          s \in {"o", "a"} :
          BookInstanceUpdate(TRUE, id, 1, d, u, s)
    \/ Tick
    \/ \E id \in Copies : IsOverdue(id)

SpecOverdue == Init /\ [][NextOverdue]_vars

-----------------------------------------------------------------------------
(* Genres: the genres of one Book, and calls of display_genre.             *)

GenreIds == 1..MaxGenres

GenreNames == {<<"A">>, <<"B", ",">>}

NextGenre ==
    \/ BookCreate(FALSE, 1, NULL, 1, NULL)
    \/ \E g \in GenreIds, n \in GenreNames : GenreCreate(g, n)
    \/ \E g \in GenreIds : GenreDelete(g)
    \/ \E g \in GenreIds : BookGenreAdd(1, g)
    \/ \E g \in GenreIds : BookGenreRemove(1, g)
    \/ DisplayGenre(1)

SpecGenre == Init /\ [][NextGenre]_vars

-----------------------------------------------------------------------------
(* Listings: Authors and BookInstances read in their default ordering, on  *)
(* a database of either NULL placement.                                    *)

PersonNames == {<<"A">>, <<"A", "B">>}

DueDates == 1..MaxDue

\* A database that holds one Book, and sorts NULL first or last.
InitListing ==
    /\ authors = {}
    /\ languages = {}
    /\ genres = {}
    /\ books = {[id |-> 1, author |-> NULL, isbn |-> 1, genre |-> {},
                 language |-> NULL]}
    /\ bookinstances = {}
    /\ users = {}
    /\ today = 1
    /\ nulls_first \in BOOLEAN
    /\ pending = [c \in Clients |-> NoValue]
    /\ retired = {}
    /\ call = [op |-> "none", id |-> NULL]
    /\ result = "ok"
    /\ ret = NoValue

\* Rows are added up to MaxListed a table, under the next id.
NextListing ==
    \/ \E l \in PersonNames, f \in PersonNames :
          /\ Cardinality(authors) < MaxListed
          /\ AuthorCreate(Cardinality(authors) + 1, l, f)
    \/ \E id \in Ids(authors), l \in PersonNames, f \in PersonNames :
          AuthorUpdate(id, l, f)
    \/ \E d \in DueDates \cup {NULL} :
          /\ Cardinality(bookinstances) < MaxListed
          /\ BookInstanceCreate(TRUE, Cardinality(bookinstances) + 1, 1, d,
                                NULL, NOT_PROVIDED)
    \/ \E id \in Ids(bookinstances), d \in DueDates \cup {NULL} :
          BookInstanceUpdate(TRUE, id, 1, d, NULL, status_default)
    \/ AuthorList
    \/ BookInstanceList

SpecListing == InitListing /\ [][NextListing]_vars

-----------------------------------------------------------------------------
(* Properties of the catalog *)

\* C1: every BookInstance row has a `book` that is the id of a Book row; it
\* is never NULL and never the id of a Book that is gone.
C1_BookAlwaysLive ==
    \A r \in bookinstances : r.book # NULL /\ r.book \in Ids(books)

\* C2: the deletion of a Book that a BookInstance references raises
\* RestrictedError and changes no table.
C2_RestrictOnDelete ==
    [][(/\ call'.op = "BookDelete"
        /\ Referencing(bookinstances, "book", call'.id) # {})
       => (result' = "RestrictedError" /\ UNCHANGED tables)]_vars

C2_Witness ==
    /\ call.op = "BookDelete"
    /\ result = "RestrictedError"
    /\ call.id \in Ids(books)
    /\ Referencing(bookinstances, "book", call.id) # {}

\* C4: no two Book rows hold the same isbn; creating a Book with an isbn that
\* a Book holds, or giving a Book the isbn of another, fails and leaves the
\* Book table as it was.
C4_UniqueIsbn ==
    /\ [](\A r1, r2 \in books : r1.isbn = r2.isbn => r1 = r2)
    /\ [][/\ (/\ call'.op = "BookCreate"
              /\ \E r \in books : r.isbn = call'.isbn)
             => (result' # "ok" /\ books' = books)
          /\ (/\ call'.op = "BookUpdate"
              /\ \E r \in books : r.id # call'.id /\ r.isbn = call'.isbn)
             => (result' # "ok" /\ books' = books)]_vars

C4_Witness ==
    /\ call.op = "BookUpdate"
    /\ result = "IntegrityError: UNIQUE isbn"
    /\ \E r \in books : r.id # call.id /\ r.isbn = call.isbn

\* C5: the deletion of an Author, or of a Language, succeeds whatever
\* references it; the Books that referenced it stay, with that reference
\* NULL, and nothing else changes.
C5_SetNullOnDelete ==
    [][/\ call'.op = "AuthorDelete" =>
            /\ result' = "ok"
            /\ authors' = {r \in authors : r.id # call'.id}
            /\ books' = {IF r.author = call'.id
                         THEN [r EXCEPT !.author = NULL] ELSE r : r \in books}
            /\ UNCHANGED <<languages, genres, bookinstances, users>>
       /\ call'.op = "LanguageDelete" =>
            /\ result' = "ok"
            /\ languages' = {r \in languages : r.id # call'.id}
            /\ books' = {IF r.language = call'.id
                         THEN [r EXCEPT !.language = NULL] ELSE r : r \in books}
            /\ UNCHANGED <<authors, genres, bookinstances, users>>]_vars

C5_Witness ==
    /\ call.op = "AuthorDelete"
    /\ result = "ok"
    /\ \E r \in books :
          /\ r.author = NULL
          /\ r.language # NULL
          /\ Referencing(bookinstances, "book", r.id) # {}
    /\ \E r \in books : r.author # NULL

-----------------------------------------------------------------------------
(* Properties of the status *)

C10_DefaultAndTransitions ==
    /\ [][(/\ call'.op = "BookInstanceCreate"
           /\ call'.status = NOT_PROVIDED
           /\ result' = "ok")
          => Row(bookinstances', call'.id).status = "d"]_vars
    /\ [](\A r \in bookinstances, s \in {"d", "o", "a", "r"}, v \in BOOLEAN :
             (r.status \in {"d", "o", "a", "r"} /\ (v => r.book # NULL))
             => ENABLED (/\ BookInstanceUpdate(v, r.id, r.book, r.due_back,
                                               r.borrower, s)
                         /\ result' = "ok"
                         /\ Row(bookinstances', r.id).status = s))

C10_Witness ==
    /\ call.op = "BookInstanceCreate"
    /\ call.status = NOT_PROVIDED
    /\ result = "ok"
    /\ Row(bookinstances, call.id).status = "d"

-----------------------------------------------------------------------------
(* Properties of the tokens *)

TokensUnique == \A r1, r2 \in bookinstances : r1.id = r2.id => r1 = r2

\* No step changes the token of a stored BookInstance: the set of stored
\* tokens changes by one token that a create adds or a delete removes.
TokensKept ==
    LET before == Ids(bookinstances)
        after == Ids(bookinstances')
    IN  \/ after = before
        \/ /\ call'.op \in {"BookInstanceSave", "BookInstanceCreate"}
           /\ result' = "ok"
           /\ call'.id \notin before
           /\ after = before \cup {call'.id}
        \/ /\ call'.op = "BookInstanceDelete"
           /\ call'.id \in before
           /\ after = before \ {call'.id}

\* C6: no two BookInstances end up with the same token, whatever the
\* interleaving of the clients; a token that a BookInstance had is never
\* the token of a BookInstance created later; and the token of a stored
\* BookInstance never changes.
C6_TokensNeverReused ==
    /\ [](TokensUnique /\ \A r \in bookinstances : r.id \notin retired)
    /\ [][TokensKept]_vars

\* C6, amended: no two stored BookInstances have the same token, whatever
\* the interleaving of the clients (a save under a stored token is refused
\* and stores nothing), and the token of a stored BookInstance never changes.
C6_TokensUnique ==
    /\ []TokensUnique
    /\ [][/\ TokensKept
          /\ (call'.op = "BookInstanceSave" /\ call'.id \in Ids(bookinstances))
             => (result' # "ok" /\ bookinstances' = bookinstances)]_vars

C6_Witness ==
    /\ call.op = "BookInstanceSave"
    /\ result = "IntegrityError: UNIQUE id"
    /\ \E r \in bookinstances : r.id = call.id /\ r.status = "o"
    /\ \E c \in Clients : pending[c] # NoValue /\ pending[c].id = call.id

-----------------------------------------------------------------------------
(* Properties of is_overdue *)

\* C7: is_overdue is true exactly when due_back is set and the current date
\* is after it; it is false when due_back is unset or is the current date,
\* whatever the status and the borrower.
C7_IsOverdue ==
    ret.op = "is_overdue" =>
        /\ ret.value = (ret.self.due_back # NULL /\ ret.today > ret.self.due_back)
        /\ ret.self.due_back = NULL => ret.value = FALSE
        /\ ret.self.due_back = ret.today => ret.value = FALSE

C7_Witness ==
    /\ ret.op = "is_overdue"
    /\ ret.value = TRUE
    /\ ret.self.status = "a"
    /\ ret.self.borrower = NULL

-----------------------------------------------------------------------------
(* Properties of display_genre *)

\* C8: display_genre() is the names of the first three genres of the Book, or
\* of all when they are fewer, in the order the query returns them, joined
\* by ", "; it is the empty string for a Book with no genre; and the call
\* changes no table.
C8_DisplayGenre ==
    /\ [](ret.op = "display_genre" =>
            LET n == Len(ret.all)
                name(i) == ret.all[i].name
            IN  ret.value =
                  CASE n = 0 -> <<>>
                    [] n = 1 -> name(1)
                    [] n = 2 -> name(1) \o <<",", " ">> \o name(2)
                    [] OTHER -> name(1) \o <<",", " ">> \o name(2)
                                \o <<",", " ">> \o name(3))
    /\ [][call'.op = "display_genre" =>
            /\ UNCHANGED tables
            /\ {ret'.all[i].id : i \in 1..Len(ret'.all)}
                  = Row(books, call'.id).genre
            /\ Len(ret'.all) = Cardinality(Row(books, call'.id).genre)]_vars

C8_Witness ==
    /\ ret.op = "display_genre"
    /\ Len(ret.all) > 3
    /\ ret.all[1].name # ret.all[2].name
    /\ ret.all[4].name # ret.all[3].name

-----------------------------------------------------------------------------
(* Properties of the default orderings *)

=============================================================================
